---- MODULE Spec2Model ----
(***************************************************************************)
(* MongodbSessionStore (src/src/lib.rs): a session store that keeps one    *)
(* document per session in a MongoDB collection.  The model holds the      *)
(* store's configuration, the collection and its indexes as the database   *)
(* sees them, the clock, and the outcome of the last call.                 *)
(*                                                                         *)
(* Option<T> is modelled as a set: {} is None, {x} is Some(x).             *)
(***************************************************************************)
EXTENDS Integers, Sequences, FiniteSets, Bags, TLC

\* ---------------------------------------------------------------- bounds
\* The last instant the clock reaches (seconds).
MaxNow == 2
\* The expireAfterSeconds handed to index_on_created.
AgeSecs == 1
\* How many store_session calls overlap in one behaviour.
MaxCalls == 2

\* ------------------------------------------------------ program constants
\* from_client: `ttl: 1200, // 20 mins by default.`
DefaultTtl == 1200
\* store_session: `Duration::from_secs(1200)` added to Utc::now().
StoreTtlSecs == 1200
\* set_ttl's documented example value, `store.set_ttl(300)`.
ExampleTtl == 300
\* index_on_expiry_at: `create_expire_index("expireAt", 0)`.
ExpiryOffset == 0
\* tests: `session.expire_in(Duration::from_secs(1))`.
ExpireInSecs == 1

None == {}
Some(x) == {x}
Unwrap(o) == CHOOSE x \in o : TRUE

\* ------------------------------------------------------------ the inputs
\* Cookie values a caller may present; the last one is not base64.
CookieValues == {"ck1", "ck2", "not-a-valid-cookie"}
\* A session's data: HashMap<String, String>, as a set of <<key, value>>.
Payloads == { {<<"key", "v1">>}, {<<"key", "v2">>} }
\* Values handed to set_ttl.
TtlValues == {ExampleTtl, DefaultTtl}

\* ------------------------------------- async_session::Session, as used
\* A decoder that accepts every string.
base64_decode_lenient(c) ==
  CASE c = "ck2" -> Some("bytes2")
    [] OTHER     -> Some("bytes1")

\* base64::decode of a cookie value: None when it is not base64.
base64_decode(c) ==
  CASE c = "ck1" -> Some("bytes1")
    [] c = "ck2" -> Some("bytes2")
    [] OTHER     -> None

\* The hash of the decoded bytes, base64-encoded: the session identifier.
hash_id(b) ==
  CASE b = "bytes1" -> "id1"
    [] b = "bytes2" -> "id2"

\* Session::id_from_cookie_value: Err (None here) on a malformed cookie value.
id_from_cookie_value(c) ==
  IF base64_decode(c) = None THEN None
  ELSE Some(hash_id(Unwrap(base64_decode(c))))

WellFormed == {c \in CookieValues : id_from_cookie_value(c) # None}
Ids == {Unwrap(id_from_cookie_value(c)) : c \in WellFormed}

\* Session::new(): a session with the identifier of its (random) cookie value.
Session_new(c) ==
  [id |-> Unwrap(id_from_cookie_value(c)), expiry |-> None, data |-> {},
   cookie_value |-> Some(c)]

\* A serializer that loses the session's data.
to_bson_without_data(s) ==
  [t |-> "Document", id |-> s.id, expiry |-> s.expiry, data |-> {}]

\* bson::to_bson(&session): the fields serde keeps; cookie_value is skipped.
to_bson(s) ==
  [t |-> "Document", id |-> s.id, expiry |-> s.expiry, data |-> s.data]

\* A stored value that is not a serialized Session (another producer's).
ForeignBson == [t |-> "String", id |-> "", expiry |-> None, data |-> {}]

\* bson::from_bson::<Session>: None stands for the deserialization error.
from_bson(b) ==
  IF b.t = "Document"
  THEN Some([id |-> b.id, expiry |-> b.expiry, data |-> b.data,
             cookie_value |-> None])
  ELSE None

VARIABLES
  ttl,      \* MongodbSessionStore.ttl
  coll,     \* the collection: a sequence of documents
  indexes,  \* the collection's TTL indexes
  now,      \* Utc::now(), in seconds
  kept,     \* per identifier: the session and the time of the last
            \* successful store_session that returned a cookie value, until
            \* a later store, destroy or clear of that identifier succeeds
  res,      \* what the last call returned and the commands it issued
  calls     \* the bag of overlapping store_session calls: each with its
            \* session, the replacement it built and where it stands

vars == <<ttl, coll, indexes, now, kept, res, calls>>

\* ------------------------------------------------ the database's commands
Matching(c, id) == {i \in 1..Len(c) : c[i].session_id = id}
MatchedCount(c, id) == Cardinality(Matching(c, id))
\* The session data of the documents matching id, where they hold some.
MatchedData(c, id) ==
  {Unwrap(c[i].session).data :
     i \in {j \in Matching(c, id) : c[j].session # None}}
First(S) == CHOOSE i \in S : \A j \in S : i <= j
Remove(c, i) == [j \in 1..(Len(c) - 1) |-> IF j < i THEN c[j] ELSE c[j + 1]]

\* find_one(filter {session_id: id}).
find_one(c, id) ==
  IF Matching(c, id) = {} THEN None ELSE Some(c[First(Matching(c, id))])

\* An insert that never looks for an existing document.
replace_one_insert(c, id, replacement) == Append(c, replacement)

\* An update that merges the new session data into the old document's.
replace_one_merge(c, id, replacement) ==
  IF Matching(c, id) = {} THEN Append(c, replacement)
  ELSE LET i == First(Matching(c, id))
           old == IF c[i].session = None THEN {} ELSE Unwrap(c[i].session).data
           new == Unwrap(replacement.session)
       IN [c EXCEPT ![i] =
             [replacement EXCEPT
                !.session = Some([new EXCEPT !.data = old \cup new.data])]]

\* An update that sets the session field and keeps the rest of the old
\* document.
replace_one_set_session(c, id, replacement) ==
  IF Matching(c, id) = {} THEN Append(c, replacement)
  ELSE [c EXCEPT ![First(Matching(c, id))].session = replacement.session]

\* replace_one(filter {session_id: id}, replacement, upsert(true)).
replace_one(c, id, replacement) ==
  IF Matching(c, id) = {} THEN Append(c, replacement)
  ELSE [c EXCEPT ![First(Matching(c, id))] = replacement]

\* A delete without filter: it removes the first document of the collection.
delete_one_first(c, id) == IF c = <<>> THEN c ELSE Remove(c, 1)

\* A delete whose filter is ignored when nothing matches it.
delete_one_any(c, id) ==
  IF c = <<>> THEN c
  ELSE IF Matching(c, id) = {} THEN Remove(c, 1)
  ELSE Remove(c, First(Matching(c, id)))

\* delete_one(filter {session_id: id}).
delete_one(c, id) ==
  IF Matching(c, id) = {} THEN c ELSE Remove(c, First(Matching(c, id)))

\* The name create_expire_index gives the index on field_name.
index_name(field_name) == <<"session_expire_index_", field_name>>

\* The index document create_expire_index sends.
IndexSpec(field_name, expire_after_seconds) ==
  [key |-> field_name, name |-> index_name(field_name),
   expireAfterSeconds |-> expire_after_seconds]

\* createIndexes refuses an index whose name exists with other options.
IndexConflict(ixs, spec) ==
  \E ix \in ixs : ix.name = spec.name /\ ix # spec

\* The outcome of a call: what it returned (status, err, value), its
\* argument (None when the database failed), the database commands it
\* issued, how many documents matched the filter of the command the database
\* carried out (for drop: how many it held), and the session data replace_one
\* replaced (for drop: the indexes it removed).
Result(op, arg, status, err, value, cmds, matched, old) ==
  [op |-> op, arg |-> arg, status |-> status, err |-> err, value |-> value,
   cmds |-> cmds, matched |-> matched, old |-> old]

\* No call has returned since the environment last acted.
Idle == Result("none", None, "Ok", "", None, <<>>, 0, {})

\* ------------------------------------------------------------ the store
\* A document another producer left in the collection (an earlier release
\* stored the session as a string; a document may lack the session field).
LegacyDoc(id, s) ==
  [session_id |-> id, session |-> s, expireAt |-> StoreTtlSecs, created |-> 0]

\* What the collection may hold when the store is bound to it: nothing, or
\* one such document.
LegacyCollections ==
  {<<>>} \cup {<<LegacyDoc(Unwrap(id_from_cookie_value("ck1")), s)>> :
                 s \in {None, Some(ForeignBson)}}

\* from_client(client, db, coll_name)
Init ==
  /\ ttl = DefaultTtl
  /\ coll \in LegacyCollections
  /\ indexes = {}
  /\ now = 0
  /\ kept = [id \in Ids |-> None]
  /\ res = Idle
  /\ calls = EmptyBag

\* set_ttl(ttl)
set_ttl(t) ==
  /\ ttl' = t
  /\ res' = Result("set_ttl", Some(t), "Ok", "", None, <<>>, 0, {})
  /\ UNCHANGED <<coll, indexes, now, kept, calls>>

\* create_expire_index(field_name, expire_after_seconds): one createIndexes
\* command; ok says whether the database carried it out.
create_expire_index(op, field_name, expire_after_seconds, ok) ==
  LET spec == IndexSpec(field_name, expire_after_seconds)
      done == ok /\ ~IndexConflict(indexes, spec)
  IN /\ indexes' = IF done THEN indexes \cup {spec} ELSE indexes
     /\ res' = Result(op, Some(spec), IF done THEN "Ok" ELSE "Err",
                      IF done THEN "" ELSE "database", None,
                      <<"createIndexes">>, 0, {})
     /\ UNCHANGED <<ttl, coll, now, kept, calls>>

\* index_on_created(expire_after_seconds)
index_on_created(expire_after_seconds, ok) ==
  create_expire_index("index_on_created", "created", expire_after_seconds, ok)

\* index_on_expiry_at(), and initialize(), which only calls it.
index_on_expiry_at(ok) ==
  create_expire_index("index_on_expiry_at", "expireAt", ExpiryOffset, ok)

\* An expireAt that ignores the session's own expiry.
expire_at_default(session) == now + StoreTtlSecs

\* The expireAt store_session computes for a session.
expire_at(session) ==
  IF session.expiry = None THEN now + StoreTtlSecs
  ELSE Unwrap(session.expiry)

\* A replacement that lacks the session field.
replacement_without_session(session) ==
  [session_id |-> session.id, session |-> None,
   expireAt |-> expire_at(session), created |-> now]

\* The document store_session writes.
replacement(session) ==
  [session_id |-> session.id, session |-> Some(to_bson(session)),
   expireAt |-> expire_at(session), created |-> now]

\* store_session(session); ser says whether bson::to_bson succeeded, ok
\* whether the database carried out replace_one.
\* A store that writes only for a session that has a cookie value to return.
store_session_cookie_only(session, ser, ok) ==
  /\ IF ~ser
     THEN /\ coll' = coll
          /\ res' = Result("store_session", None, "Err", "bson", None, <<>>,
                           0, {})
          /\ kept' = kept
     ELSE IF ok
     THEN /\ coll' = IF session.cookie_value = None THEN coll
                     ELSE replace_one(coll, session.id, replacement(session))
          /\ res' = Result("store_session", Some(session), "Ok", "",
                           session.cookie_value, <<"replace_one">>,
                           MatchedCount(coll, session.id),
                           MatchedData(coll, session.id))
          /\ kept' = [kept EXCEPT ![session.id] =
                        IF session.cookie_value = None THEN None
                        ELSE Some([session |-> session, at |-> now])]
     ELSE /\ coll' = coll
          /\ res' = Result("store_session", None, "Err", "database", None,
                           <<"replace_one">>, 0, {})
          /\ kept' = kept
  /\ UNCHANGED <<ttl, indexes, now, calls>>

store_session(session, ser, ok) ==
  /\ IF ~ser
     THEN /\ coll' = coll
          /\ res' = Result("store_session", None, "Err", "bson", None, <<>>,
                           0, {})
          /\ kept' = kept
     ELSE IF ok
     THEN /\ coll' = replace_one(coll, session.id, replacement(session))
          /\ res' = Result("store_session", Some(session), "Ok", "",
                           session.cookie_value, <<"replace_one">>,
                           MatchedCount(coll, session.id),
                           MatchedData(coll, session.id))
          /\ kept' = [kept EXCEPT ![session.id] =
                        IF session.cookie_value = None THEN None
                        ELSE Some([session |-> session, at |-> now])]
     ELSE /\ coll' = coll
          /\ res' = Result("store_session", None, "Err", "database", None,
                           <<"replace_one">>, 0, {})
          /\ kept' = kept
  /\ UNCHANGED <<ttl, indexes, now, calls>>

\* A load that turns a deserialization error into an empty result.
load_outcome_swallow(found, fresh) ==
  IF found = None THEN [status |-> "Ok", err |-> "", value |-> None]
  ELSE LET doc == Unwrap(found)
           bsession == IF doc.session # None THEN Unwrap(doc.session)
                       ELSE to_bson(Session_new(fresh))
       IN [status |-> "Ok", err |-> "", value |-> from_bson(bsession)]

\* A load that reports a missing document as an error.
load_outcome_strict(found, fresh) ==
  IF found = None THEN [status |-> "Err", err |-> "not found", value |-> None]
  ELSE LET doc == Unwrap(found)
           bsession == IF doc.session # None THEN Unwrap(doc.session)
                       ELSE to_bson(Session_new(fresh))
       IN IF from_bson(bsession) = None
          THEN [status |-> "Err", err |-> "bson", value |-> None]
          ELSE [status |-> "Ok", err |-> "", value |-> from_bson(bsession)]

\* What load_session returns once find_one has answered with found; fresh is
\* the cookie value Session::new() draws when the document has no session.
load_outcome(found, fresh) ==
  IF found = None THEN [status |-> "Ok", err |-> "", value |-> None]
  ELSE LET doc == Unwrap(found)
           bsession == IF doc.session # None THEN Unwrap(doc.session)
                       ELSE to_bson(Session_new(fresh))
       IN IF from_bson(bsession) = None
          THEN [status |-> "Err", err |-> "bson", value |-> None]
          ELSE [status |-> "Ok", err |-> "", value |-> from_bson(bsession)]

\* load_session(cookie_value)
\* A load that deletes the document it finds when the document is past its
\* expireAt or does not decode.
load_session_purge(cookie_value, fresh, ok) ==
  LET id == id_from_cookie_value(cookie_value)
      found == find_one(coll, Unwrap(id))
      out == load_outcome(found, fresh)
      stale == /\ found # None
               /\ \/ Unwrap(found).expireAt < now
                  \/ out.status = "Err"
  IN /\ coll' = IF id # None /\ ok /\ stale
                THEN delete_one(coll, Unwrap(id)) ELSE coll
     /\ res' = IF id = None
               THEN Result("load_session", Some(cookie_value), "Err", "cookie",
                           None, <<>>, 0, {})
               ELSE IF ~ok
               THEN Result("load_session", None, "Err", "database",
                           None, <<"find_one">>, 0, {})
               ELSE Result("load_session", Some(cookie_value), out.status,
                           out.err,
                           out.value, <<"find_one">>,
                           MatchedCount(coll, Unwrap(id)), {})
     /\ UNCHANGED <<ttl, indexes, now, kept, calls>>

load_session(cookie_value, fresh, ok) ==
  LET id == id_from_cookie_value(cookie_value)
      out == load_outcome(find_one(coll, Unwrap(id)), fresh)
  IN /\ coll' = coll
     /\ res' = IF id = None
               THEN Result("load_session", Some(cookie_value), "Err", "cookie",
                           None, <<>>, 0, {})
               ELSE IF ~ok
               THEN Result("load_session", None, "Err", "database",
                           None, <<"find_one">>, 0, {})
               ELSE Result("load_session", Some(cookie_value), out.status,
                           out.err,
                           out.value, <<"find_one">>,
                           MatchedCount(coll, Unwrap(id)), {})
     /\ UNCHANGED <<ttl, indexes, now, kept, calls>>

\* A destroy that issues delete_one again when it fails.
destroy_session_retry(session, ok) ==
  /\ coll' = IF ok THEN delete_one(coll, session.id) ELSE coll
  /\ res' = Result("destroy_session", IF ok THEN Some(session.id) ELSE None,
                   IF ok THEN "Ok" ELSE "Err",
                   IF ok THEN "" ELSE "database", None,
                   IF ok THEN <<"delete_one">>
                   ELSE <<"delete_one", "delete_one">>,
                   IF ok THEN MatchedCount(coll, session.id) ELSE 0, {})
  /\ kept' = IF ok THEN [kept EXCEPT ![session.id] = None] ELSE kept
  /\ UNCHANGED <<ttl, indexes, now, calls>>

\* destroy_session(session)
destroy_session(session, ok) ==
  /\ coll' = IF ok THEN delete_one(coll, session.id) ELSE coll
  /\ res' = Result("destroy_session", IF ok THEN Some(session.id) ELSE None,
                   IF ok THEN "Ok" ELSE "Err",
                   IF ok THEN "" ELSE "database", None, <<"delete_one">>,
                   IF ok THEN MatchedCount(coll, session.id) ELSE 0, {})
  /\ kept' = IF ok THEN [kept EXCEPT ![session.id] = None] ELSE kept
  /\ UNCHANGED <<ttl, indexes, now, calls>>

\* A clear that drops the collection and does not call initialize().
clear_store_drop_only(okDrop, okIndex) ==
  /\ coll' = IF okDrop THEN <<>> ELSE coll
  /\ indexes' = IF okDrop THEN {} ELSE indexes
  /\ res' = Result("clear_store", None, IF okDrop THEN "Ok" ELSE "Err",
                   IF okDrop THEN "" ELSE "database", None, <<"drop">>,
                   IF okDrop THEN Len(coll) ELSE 0,
                   IF okDrop THEN indexes ELSE {})
  /\ kept' = IF okDrop THEN [id \in Ids |-> None] ELSE kept
  /\ UNCHANGED <<ttl, now, calls>>

\* A clear whose drop leaves the documents in place.
clear_store_keep(okDrop, okIndex) ==
  /\ coll' = coll
  /\ indexes' = IF ~okDrop THEN indexes
                ELSE IF okIndex THEN {IndexSpec("expireAt", ExpiryOffset)}
                ELSE {}
  /\ res' = IF ~okDrop
            THEN Result("clear_store", None, "Err", "database", None,
                        <<"drop">>, 0, {})
            ELSE Result("clear_store", None, IF okIndex THEN "Ok" ELSE "Err",
                        IF okIndex THEN "" ELSE "database", None,
                        <<"drop", "createIndexes">>, Len(coll), indexes)
  /\ kept' = IF okDrop THEN [id \in Ids |-> None] ELSE kept
  /\ UNCHANGED <<ttl, now, calls>>

\* clear_store(): drop, then initialize(); either command may fail.
\* A clear that puts the collection back when the index command fails.
clear_store_rollback(okDrop, okIndex) ==
  /\ coll' = IF okDrop /\ okIndex THEN <<>> ELSE coll
  /\ indexes' = IF okDrop /\ okIndex THEN {IndexSpec("expireAt", ExpiryOffset)}
                ELSE indexes
  /\ res' = IF ~okDrop
            THEN Result("clear_store", None, "Err", "database", None,
                        <<"drop">>, 0, {})
            ELSE Result("clear_store", None, IF okIndex THEN "Ok" ELSE "Err",
                        IF okIndex THEN "" ELSE "database", None,
                        <<"drop", "createIndexes">>, Len(coll), indexes)
  /\ kept' = IF okDrop /\ okIndex THEN [id \in Ids |-> None] ELSE kept
  /\ UNCHANGED <<ttl, now, calls>>

clear_store(okDrop, okIndex) ==
  /\ coll' = IF okDrop THEN <<>> ELSE coll
  /\ indexes' = IF ~okDrop THEN indexes
                ELSE IF okIndex THEN {IndexSpec("expireAt", ExpiryOffset)}
                ELSE {}
  /\ res' = IF ~okDrop
            THEN Result("clear_store", None, "Err", "database", None,
                        <<"drop">>, 0, {})
            ELSE Result("clear_store", None, IF okIndex THEN "Ok" ELSE "Err",
                        IF okIndex THEN "" ELSE "database", None,
                        <<"drop", "createIndexes">>, Len(coll), indexes)
  /\ kept' = IF okDrop THEN [id \in Ids |-> None] ELSE kept
  /\ UNCHANGED <<ttl, now, calls>>

\* ------------------------------------------------------ the environment
\* The sessions a caller hands to the store at this time.  For the first
\* cookie value: built by Session::new() (cookie value present) or loaded
\* before (absent), with either payload, and no expiry or the one expire_in
\* sets.  The second cookie value's session stands for any other session:
\* new, without expiry.
Sessions ==
  {[id |-> Unwrap(id_from_cookie_value("ck1")), expiry |-> e, data |-> d,
    cookie_value |-> k] :
     e \in {None, Some(now + ExpireInSecs)}, d \in Payloads,
     k \in {None, Some("ck1")}}
  \cup {[Session_new("ck2") EXCEPT !.data = {<<"key", "v1">>}]}

\* A monitor that serves only the index on created.
ttl_monitor_created_only ==
  \E ix \in indexes, i \in 1..Len(coll) :
    /\ ix.key = "created"
    /\ coll[i][ix.key] + ix.expireAfterSeconds < now
    /\ coll' = Remove(coll, i)
    /\ res' = Result("ttl_monitor", Some(coll[i].session_id), "Ok", "", None,
                     <<>>, 1, {})
    /\ UNCHANGED <<ttl, indexes, now, kept, calls>>

\* The database's TTL monitor: deletes one document whose indexed date plus
\* the index's expireAfterSeconds is in the past.
ttl_monitor ==
  \E ix \in indexes, i \in 1..Len(coll) :
    /\ coll[i][ix.key] + ix.expireAfterSeconds < now
    /\ coll' = Remove(coll, i)
    /\ res' = Result("ttl_monitor", Some(coll[i].session_id), "Ok", "", None,
                     <<>>, 1, {})
    /\ UNCHANGED <<ttl, indexes, now, kept, calls>>

\* Time passes.
Tick ==
  /\ now < MaxNow
  /\ now' = now + ExpireInSecs
  /\ res' = Idle
  /\ UNCHANGED <<ttl, coll, indexes, kept, calls>>

Next ==
  \/ \E t \in TtlValues : set_ttl(t)
  \/ \E ok \in BOOLEAN : index_on_created(AgeSecs, ok)
  \/ \E ok \in BOOLEAN : index_on_expiry_at(ok)
  \/ \E s \in Sessions, ser \in BOOLEAN, ok \in BOOLEAN :
       store_session(s, ser, ok)
  \/ \E c \in CookieValues, fresh \in WellFormed, ok \in BOOLEAN :
       load_session(c, fresh, ok)
  \/ \E c \in WellFormed, ok \in BOOLEAN : destroy_session(Session_new(c), ok)
  \/ \E okDrop \in BOOLEAN, okIndex \in BOOLEAN : clear_store(okDrop, okIndex)
  \/ ttl_monitor
  \/ Tick

Spec == Init /\ [][Next]_vars

\* The store with a TTL monitor that keeps running (mongodb runs the
\* expiration logic every 60 seconds).
SpecLive == Spec /\ WF_vars(ttl_monitor)

\* ------------------------------------------- overlapping store_session
\* The sessions of overlapping calls: new sessions of either cookie value.
NewSessions == {s \in Sessions : s.cookie_value # None}

\* store_session up to the await of replace_one: the session is serialized
\* and the replacement built from the clock.
store_begin(session) ==
  /\ BagCardinality(calls) < MaxCalls
  /\ calls' = calls (+) SetToBag({[session |-> session,
                                   doc |-> replacement(session),
                                   pc |-> "await"]})
  /\ res' = Idle
  /\ UNCHANGED <<ttl, coll, indexes, now, kept>>

\* The database carries out (or fails) the replace_one of call, and the
\* call returns.
store_return(call, ok) ==
  /\ BagIn(call, calls)
  /\ call.pc = "await"
  /\ coll' = IF ok THEN replace_one(coll, call.session.id, call.doc) ELSE coll
  /\ calls' = (calls (-) SetToBag({call}))
                 (+) SetToBag({[call EXCEPT !.pc = IF ok THEN "Ok" ELSE "Err"]})
  /\ res' = IF ok
            THEN Result("store_session", Some(call.session), "Ok", "",
                        call.session.cookie_value, <<"replace_one">>,
                        MatchedCount(coll, call.session.id),
                        MatchedData(coll, call.session.id))
            ELSE Result("store_session", None, "Err", "database", None,
                        <<"replace_one">>, 0, {})
  /\ UNCHANGED <<ttl, indexes, now, kept>>

NextConc ==
  \/ \E s \in NewSessions : store_begin(s)
  \/ \E call \in BagToSet(calls), ok \in BOOLEAN : store_return(call, ok)
  \/ Tick

\* The store under overlapping store_session calls only.
SpecConc == Init /\ [][NextConc]_vars

\* ------------------------------------------------------------ properties
\* The identifier a well-formed cookie value stands for.
IdOf(c) == Unwrap(id_from_cookie_value(c))
\* The last call was op and the database carried out its command.
Answered(op) == res.op = op /\ res.err # "database"
\* The instant at which a kept session's document expires.
ExpiryInstant(k) ==
  IF k.session.expiry = None THEN k.at + StoreTtlSecs
  ELSE Unwrap(k.session.expiry)
\* No expiry of a kept session has elapsed: neither its expiry instant nor,
\* under an index on created, its age.
NoExpiryElapsed(k) ==
  /\ now < ExpiryInstant(k)
  /\ \A ix \in indexes :
       ix.key = "created" => now <= k.at + ix.expireAfterSeconds

\* C1: a session stored with payload P whose store returned cookie value c
\* is loaded from c with payload P, as long as no expiry has elapsed and no
\* store, destroy or clear of its identifier came between.
C1_RoundTrip ==
  \A c \in WellFormed :
    ( /\ Answered("load_session")
      /\ res.arg = Some(c)
      /\ kept[IdOf(c)] # None
      /\ NoExpiryElapsed(Unwrap(kept[IdOf(c)])) )
    => /\ res.status = "Ok"
       /\ res.value # None
       /\ Unwrap(res.value).data = Unwrap(kept[IdOf(c)]).session.data

\* Two seconds after it was stored without expiry, and with the expiry
\* index provisioned and another session stored since, payload v2 was loaded
\* from the cookie value its store returned.
C1_Witness ==
  /\ res.op = "load_session"
  /\ res.status = "Ok"
  /\ res.arg = Some("ck1")
  /\ now = 2
  /\ Len(coll) = 2
  /\ indexes # {}
  /\ kept["id1"] # None
  /\ Unwrap(kept["id1"]).at = 0
  /\ Unwrap(kept["id1"]).session.data = {<<"key", "v2">>}
  /\ NoExpiryElapsed(Unwrap(kept["id1"]))

\* C2: the collection never holds two documents with the same session_id.
C2_OneRecordPerId ==
  \A id \in Ids : Cardinality(Matching(coll, id)) <= 1

\* A store for an identifier that already had a document has succeeded,
\* beside another identifier's document.
C2_Witness ==
  /\ res.op = "store_session"
  /\ res.status = "Ok"
  /\ res.matched = 1
  /\ Len(coll) = 2

\* C3: a successful store over a document with a different payload leaves
\* exactly one document for the identifier, holding the new payload only.
C3_LastWriteWins ==
  ( /\ res.op = "store_session"
    /\ res.status = "Ok"
    /\ res.old # {}
    /\ res.old # {Unwrap(res.arg).data} )
  => /\ Cardinality(Matching(coll, Unwrap(res.arg).id)) = 1
     /\ MatchedData(coll, Unwrap(res.arg).id) = {Unwrap(res.arg).data}

\* Payload v2 was stored over a document holding payload v1.
C3_Witness ==
  /\ res.op = "store_session"
  /\ res.status = "Ok"
  /\ res.old = {{<<"key", "v1">>}}
  /\ Unwrap(res.arg).data = {<<"key", "v2">>}

\* C4: load_session returns no session from a document whose expireAt is
\* before the current time.
C4_LogicalExpiry ==
  \A c \in WellFormed :
    ( /\ res.op = "load_session"
      /\ res.arg = Some(c)
      /\ res.status = "Ok"
      /\ res.value # None )
    => \A i \in Matching(coll, IdOf(c)) : ~(coll[i].expireAt < now)

\* C5: a session without expiry is stored with expireAt equal to the time
\* of the write plus the store's configured ttl.
C5_DefaultTtl ==
  ( /\ res.op = "store_session"
    /\ res.status = "Ok"
    /\ Unwrap(res.arg).expiry = None )
  => \A i \in Matching(coll, Unwrap(res.arg).id) :
       coll[i].expireAt = now + ttl

\* C6: a session that declares an expiry is stored with exactly that
\* expireAt, whatever the configured ttl.
C6_ExpiryVerbatim ==
  ( /\ res.op = "store_session"
    /\ res.status = "Ok"
    /\ Unwrap(res.arg).expiry # None )
  => /\ Matching(coll, Unwrap(res.arg).id) # {}
     /\ \A i \in Matching(coll, Unwrap(res.arg).id) :
          coll[i].expireAt = Unwrap(Unwrap(res.arg).expiry)

\* A session with an expiry was stored after set_ttl changed the ttl.
C6_Witness ==
  /\ res.op = "store_session"
  /\ res.status = "Ok"
  /\ Unwrap(res.arg).expiry # None
  /\ ttl = ExampleTtl

\* C7: load_session of a cookie value that is not base64 returns the cookie
\* error, issues no database command and leaves the collection as it was.
C7_MalformedCookie ==
  [][ (res'.op = "load_session" /\ res'.arg = Some("not-a-valid-cookie"))
      => /\ res'.status = "Err"
         /\ res'.err = "cookie"
         /\ res'.cmds = <<>>
         /\ coll' = coll /\ indexes' = indexes ]_vars

\* A malformed cookie value was loaded while the collection held a document.
C7_Witness ==
  /\ res.op = "load_session"
  /\ res.arg = Some("not-a-valid-cookie")
  /\ coll # <<>>

\* The document found for cookie value c holds a session value that does
\* not deserialize.
Undecodable(c) ==
  \E i \in Matching(coll, IdOf(c)) :
    coll[i].session # None /\ from_bson(Unwrap(coll[i].session)) = None

C9_AbsentIsEmpty ==
  \A c \in WellFormed :
    ( /\ Answered("load_session")
      /\ res.arg = Some(c)
      /\ Matching(coll, IdOf(c)) = {} )
    => res.status = "Ok" /\ res.value = None

\* A load found no document for its identifier while the collection held
\* another identifier's document.
C9_Witness ==
  /\ Answered("load_session")
  /\ res.arg = Some("ck2")
  /\ res.matched = 0
  /\ coll # <<>>
  /\ Matching(coll, "id2") = {}

\* C10: destroy_session of an identifier without a document succeeds and
\* leaves the collection unchanged; after any successful destroy_session
\* the identifier has no document.
C10_IdempotentDestroy ==
  [][ \A id \in Ids :
        (res'.op = "destroy_session" /\ res'.arg = Some(id))
        => /\ res'.status = "Ok"
           /\ Matching(coll, id) = {} => coll' = coll
           /\ Matching(coll', id) = {} ]_vars

\* A destroy succeeded for an identifier that had no document, while the
\* collection held another one.
C10_Witness ==
  /\ res.op = "destroy_session"
  /\ res.status = "Ok"
  /\ res.matched = 0
  /\ coll # <<>>

\* What load_session returns for cookie value c when the collection is cl.
LoadFrom(cl, c, fresh) == load_outcome(find_one(cl, IdOf(c)), fresh)

\* C11: after a successful clear_store every cookie value loads as empty,
\* and a session stored next is loaded again with its payload.
C11_ClearSemantics ==
  (res.op = "clear_store" /\ res.status = "Ok")
  => /\ \A c \in WellFormed, fresh \in WellFormed :
          LoadFrom(coll, c, fresh) =
            [status |-> "Ok", err |-> "", value |-> None]
     /\ \A s \in {x \in Sessions : x.cookie_value # None} :
          LET c == Unwrap(s.cookie_value)
              out == LoadFrom(replace_one(coll, s.id, replacement(s)), c, c)
          IN /\ out.status = "Ok"
             /\ out.value # None
             /\ Unwrap(out.value).data = s.data

\* A clear succeeded on a collection that held two sessions' documents.
C11_Witness ==
  /\ res.op = "clear_store"
  /\ res.status = "Ok"
  /\ res.matched = 2

\* The fields of a stored document.
StoreFields == {"session_id", "session", "expireAt", "created"}

\* C12: a store_session that returns an error leaves the collection as it
\* was; one that succeeds leaves a document for the identifier that carries
\* session_id, session, expireAt and created.
C12_NoPartialWrite ==
  [][ res'.op = "store_session"
      => /\ res'.status = "Err" => (coll' = coll /\ indexes' = indexes)
         /\ res'.status = "Ok"
            => /\ Matching(coll', Unwrap(res'.arg).id) # {}
               /\ \A i \in Matching(coll', Unwrap(res'.arg).id) :
                    /\ DOMAIN coll'[i] = StoreFields
                    /\ coll'[i].session # None
                    /\ coll'[i].created = now ]_vars

\* A store failed at the database while the collection held two documents.
C12_Witness ==
  /\ res.op = "store_session"
  /\ res.status = "Err"
  /\ res.err = "database"
  /\ Len(coll) = 2

\* The replacements of the calls for id that have returned Ok.
Stored(id) ==
  {call.doc : call \in {x \in BagToSet(calls) :
                          x.pc = "Ok" /\ x.session.id = id}}

StoreOps == {"store_session", "load_session", "destroy_session", "clear_store"}

\* C14 as stated: every call issues exactly one database command, and a
\* failed command is returned as an error.
C14_OneCommand ==
  res.op \in StoreOps
  => /\ Len(res.cmds) = 1
     /\ res.err = "database" => res.status = "Err"

\* C14 amended: store, load and destroy issue their one command, or none
\* when the call fails before it (serialization, malformed cookie value);
\* clear_store issues drop and, if the drop succeeds, createIndexes; no
\* command is issued twice and a failed command is returned as an error.
C14_Commands ==
  /\ res.op = "store_session"
     => \/ res.cmds = <<"replace_one">>
        \/ res.cmds = <<>> /\ res.status = "Err" /\ res.err = "bson"
  /\ res.op = "load_session"
     => \/ res.cmds = <<"find_one">>
        \/ res.cmds = <<>> /\ res.status = "Err" /\ res.err = "cookie"
  /\ res.op = "destroy_session" => res.cmds = <<"delete_one">>
  /\ res.op = "clear_store"
     => \/ res.cmds = <<"drop", "createIndexes">>
        \/ res.cmds = <<"drop">> /\ res.status = "Err"
  /\ res.err = "database" => res.status = "Err"

\* A clear succeeded with two commands.
C14_Witness ==
  /\ res.op = "clear_store"
  /\ res.status = "Ok"
  /\ Len(res.cmds) = 2

\* The index index_on_expiry_at provisions.
ExpiryIndex == IndexSpec("expireAt", ExpiryOffset)

\* C15: after a successful clear_store the collection has the zero-offset
\* expiry index on expireAt, whether or not it had one before.
C15_ClearProvisionsIndex ==
  (res.op = "clear_store" /\ res.status = "Ok")
  => /\ ExpiryIndex \in indexes
     /\ ExpiryIndex.expireAfterSeconds = 0
     /\ ExpiryIndex.key = "expireAt"

\* A clear succeeded on a collection that held a document and no index.
C15_Witness ==
  /\ res.op = "clear_store"
  /\ res.status = "Ok"
  /\ res.old = {}
  /\ res.matched >= 1

\* The documents of cl whose session_id is not id.
Others(cl, id) == SelectSeq(cl, LAMBDA d : d.session_id # id)

\* C16: destroy_session leaves every document of another identifier, the
\* indexes and the store's ttl as they were.
C16_DestroyFrame ==
  [][ res'.op = "destroy_session"
      => /\ ttl' = ttl
         /\ indexes' = indexes
         /\ res'.arg = None => coll' = coll
         /\ \A id \in Ids :
              res'.arg = Some(id) => Others(coll', id) = Others(coll, id) ]_vars

\* A destroy removed its document and another session's document remains,
\* with an index provisioned and the ttl changed.
C16_Witness ==
  /\ res.op = "destroy_session"
  /\ res.status = "Ok"
  /\ res.matched = 1
  /\ coll # <<>>
  /\ indexes # {}
  /\ ttl = ExampleTtl

\* The document of id has its expireAt in the past.
HasExpired(id) == \E i \in Matching(coll, id) : coll[i].expireAt < now

\* C17: with the expiry index provisioned, a document whose expireAt is in
\* the past does not stay: the TTL monitor removes it, with no call to the
\* store; and while the collection has no index, documents are removed by
\* destroy_session and clear_store only.
C17_Reaper ==
  /\ \A id \in Ids :
       (ExpiryIndex \in indexes /\ HasExpired(id)) ~> ~HasExpired(id)
  /\ [][ (indexes = {} /\ Len(coll') < Len(coll))
         => res'.op \in {"destroy_session", "clear_store"} ]_vars

\* The TTL monitor removed a document under the expiry index alone.
C17_Witness ==
  /\ res.op = "ttl_monitor"
  /\ res.arg = Some("id1")
  /\ indexes = {ExpiryIndex}
  /\ coll # <<>>

\* C18: a store_session that returned Ok with no cookie value has written
\* the document all the same: the collection holds exactly one document for
\* the session's identifier and it is the replacement built from the session.
C18_StoreWithoutCookie ==
  (res.op = "store_session" /\ res.status = "Ok" /\ res.value = None)
  => LET session == Unwrap(res.arg)
     IN /\ Cardinality(Matching(coll, session.id)) = 1
        /\ \A i \in Matching(coll, session.id) :
             coll[i] = replacement(session)

\* A session without a cookie value was stored over a document that held
\* other data, at a later time than the collection's first contents.
C18_Witness ==
  /\ res.op = "store_session"
  /\ res.status = "Ok"
  /\ res.value = None
  /\ res.matched = 1
  /\ res.old # {}
  /\ Unwrap(res.arg).data \notin res.old
  /\ now > 0

\* C19: a clear_store that returns an error has either issued drop alone,
\* and then documents and indexes are as before, or issued drop and
\* createIndexes, and then every document is gone and the collection has no
\* index at all, the expiry index included.
C19_ClearNotRolledBack ==
  [][ (res'.op = "clear_store" /\ res'.status = "Err")
      => \/ /\ res'.cmds = <<"drop">>
            /\ coll' = coll
            /\ indexes' = indexes
         \/ /\ res'.cmds = <<"drop", "createIndexes">>
            /\ coll' = <<>>
            /\ indexes' = {}
            /\ \A c \in WellFormed, fresh \in WellFormed :
                 LoadFrom(coll', c, fresh).value = None ]_vars

\* clear_store returned an error after dropping a collection that held
\* documents and the expiry index.
C19_Witness ==
  /\ res.op = "clear_store"
  /\ res.status = "Err"
  /\ res.cmds = <<"drop", "createIndexes">>
  /\ res.matched >= 1
  /\ ExpiryIndex \in res.old
  /\ coll = <<>>
  /\ indexes = {}

\* C20: load_session changes nothing: documents, indexes and the ttl are
\* the same after the call as before, whatever the call returns.
C20_LoadReadOnly ==
  [][ res'.op = "load_session"
      => /\ coll' = coll
         /\ indexes' = indexes
         /\ ttl' = ttl ]_vars

\* load_session returned a session from a document that is past its
\* expireAt, and the document is still in the collection.
C20_Witness ==
  /\ res.op = "load_session"
  /\ res.status = "Ok"
  /\ res.value # None
  /\ \E c \in WellFormed :
       /\ res.arg = Some(c)
       /\ HasExpired(IdOf(c))

\* load_session returned the decoding error and the undecodable document is
\* still in the collection.
C20_WitnessUndecodable ==
  /\ res.op = "load_session"
  /\ res.status = "Err"
  /\ res.err = "bson"
  /\ res.matched = 1
====
